---- MODULE Spec2Model ----
(***************************************************************************)
(* MyQS batch job queue: the submit tool (bin/myqsub.py) and the status    *)
(* tool (bin/myqstat.py), interleaved at the granularity of their          *)
(* file-system calls, over a store directory modelled as names bound to    *)
(* inodes, with the scheduler daemon (myqsd) as the specification has it.  *)
(***************************************************************************)
EXTENDS Integers, Sequences, FiniteSets, TLC

VARIABLES
    pc,        \* position of every submit process in myqsub.py
    files,     \* per process: the batch, one flag per file (TRUE = file exists)
    idx,       \* per process: index of the batch file the loop of _submit is at
    fd,        \* per process: inode of the file it has open (0 = none)
    jobid,     \* per process: local jobid of _lastjob / _submit
    pid,       \* per process: local pid read from a lock file
    dir,       \* the store directory: file name -> inode
    ino,       \* inode -> content (a sequence of characters)
    reported,  \* per process: the ids it printed as submitted, with what <id>.q then held
    lastIn,    \* per process: myqs.last as found by the running call of _lastjob
    opts,      \* per process: the parsed options (queue, ncpus)
    notice,    \* the processes that printed 'MyQS batch job scheduler not running'
    daemon,    \* per scheduler daemon: "off", "running" or "dead"
    pgroups,   \* the process groups (of dispatched jobs) that have a live member
    st,        \* the status tool (bin/myqstat.py): its position and locals
    ld         \* the module loader (bin/pyld.py): its position, sys.argv and objects

vars == <<pc, files, idx, fd, jobid, pid, dir, ino, reported, lastIn, opts,
          notice, daemon, pgroups, st, ld>>

(* ---------------------------- bounds ----------------------------------- *)
NProcs == 2
MaxFiles == 2
NInvoke == 1
NDaemons == 2
MaxArgs == 4
Budget == 2

(* ------------------------- program constants --------------------------- *)
MaxJobId == 32767

Procs == 1..NProcs

\* the pids of the scheduler daemons that may be started
Daemons == (NProcs + 1)..(NProcs + NDaemons)

(* ----------------------------- file names ------------------------------ *)
LockFile == <<0, "myqsub.pid">>
LastJob == <<0, "myqs.last">>
TmpFile == <<0, "newjob.tmp">>
QFile(id) == <<id, "q">>
RFile(id) == <<id, "r">>
MyqsdFile == <<0, "myqsd.pid">>

(* ------------------------- text conversions ---------------------------- *)
DigitChar == <<"0", "1", "2", "3", "4", "5", "6", "7", "8", "9">>

RECURSIVE Str(_)
Str(n) == IF n < 10 THEN <<DigitChar[n + 1]>>
          ELSE Str(n \div 10) \o <<DigitChar[(n % 10) + 1]>>

\* print(x, file=ofile): the text of x and a newline
PrintLine(text) == text \o <<"\n">>

\* ifile.readline(): the characters up to and including the first newline
RECURSIVE ReadLine(_)
ReadLine(s) == IF s = <<>> THEN <<>>
               ELSE IF Head(s) = "\n" THEN <<"\n">>
               ELSE <<Head(s)>> \o ReadLine(Tail(s))

IsSpace(c) == c \in {" ", "\n", "\t"}

RECURSIVE LStrip(_)
LStrip(s) == IF s # <<>> /\ IsSpace(Head(s)) THEN LStrip(Tail(s)) ELSE s

RECURSIVE RStrip(_)
RStrip(s) == IF s # <<>> /\ IsSpace(s[Len(s)]) THEN RStrip(SubSeq(s, 1, Len(s) - 1)) ELSE s

Strip(s) == RStrip(LStrip(s))

DigitVal(c) == CHOOSE d \in 0..9 : DigitChar[d + 1] = c

IsDigits(s) == s # <<>> /\ \A i \in 1..Len(s) : \E d \in 0..9 : DigitChar[d + 1] = s[i]

RECURSIVE DigitsVal(_)
DigitsVal(s) == IF s = <<>> THEN 0
                ELSE 10 * DigitsVal(SubSeq(s, 1, Len(s) - 1)) + DigitVal(s[Len(s)])

\* int(text): ok = FALSE stands for ValueError
ParseInt(s) == IF IsDigits(s) THEN [ok |-> TRUE, val |-> DigitsVal(s)]
               ELSE [ok |-> FALSE, val |-> 0]

\* int(ifile.readline().strip())
ReadInt(content) == ParseInt(Strip(ReadLine(content)))

\* float(text): whitespace around the number is accepted; ok = FALSE stands for ValueError
ParseFloat(s) ==
    LET t == Strip(s)
    IN [ok |-> \/ IsDigits(t)
               \/ \E i \in 1..Len(t) : /\ t[i] = "."
                                       /\ IsDigits(SubSeq(t, 1, i - 1) \o SubSeq(t, i + 1, Len(t)))]

\* for line in ifile: the lines of a text
RECURSIVE Lines(_)
Lines(s) == IF s = <<>> THEN <<>>
            ELSE <<ReadLine(s)>> \o Lines(SubSeq(s, Len(ReadLine(s)) + 1, Len(s)))

HasEq(l) == \E i \in 1..Len(l) : l[i] = "="

FirstEq(l) == CHOOSE i \in 1..Len(l) : l[i] = "=" /\ \A j \in 1..(i - 1) : l[j] # "="

NoInfo == [k \in {} |-> <<>>]

\* myqstat.py lines 98-102: info[line.split('=')[0]] = line.split('=', 1)[1] for every
\* stripped line that has an '='; a later line replaces an earlier one of the same key
RECURSIVE InfoOf(_)
InfoOf(ls) ==
    IF ls = <<>> THEN NoInfo
    ELSE LET prev == InfoOf(SubSeq(ls, 1, Len(ls) - 1))
             l == Strip(ls[Len(ls)])
         IN IF HasEq(l)
               THEN LET key == SubSeq(l, 1, FirstEq(l) - 1)
                    IN [k \in DOMAIN prev \cup {key} |->
                           IF k = key THEN SubSeq(l, FirstEq(l) + 1, Len(l)) ELSE prev[k]]
               ELSE prev

ParseInfo(content) == InfoOf(Lines(content))

(* ----------------------------- file system ----------------------------- *)
Exists(name) == name \in DOMAIN dir

Content(name) == ino[dir[name]]

Used(d, f, s) == ({d[n] : n \in DOMAIN d} \cup {f[p] : p \in Procs} \cup {s}) \ {0}

UsedInodes(d, f) == Used(d, f, st.fd)

FreshInode == CHOOSE i \in 1..(Cardinality(DOMAIN ino) + 1) : i \notin DOMAIN ino

\* an inode lives as long as a name or an open file refers to it
Collect(d, f, tab) == [i \in UsedInodes(d, f) \cap DOMAIN tab |-> tab[i]]

Unlink(d, name) == [n \in DOMAIN d \ {name} |-> d[n]]

Link(d, name, i) == [n \in DOMAIN d \cup {name} |-> IF n = name THEN i ELSE d[n]]

\* os.rename(old, new): new takes the inode of old, replacing what it named
Rename(d, old, new) == Link(Unlink(d, old), new, d[old])

\* a write of data at offset 0 through a handle opened with mode 'w'
Overwrite(old, data) == data \o SubSeq(old, Len(data) + 1, Len(old))

\* open(name, 'w') by p: truncates the inode the name has, or creates one
OpenW(p, name) ==
    LET i == IF Exists(name) THEN dir[name] ELSE FreshInode
    IN /\ fd' = [fd EXCEPT ![p] = i]
       /\ dir' = Link(dir, name, i)
       /\ ino' = Collect(dir', fd', [j \in DOMAIN ino \cup {i} |-> IF j = i THEN <<>> ELSE ino[j]])

\* the buffered text reaches the file when the with-block closes it
WriteClose(p, data) ==
    /\ fd' = [fd EXCEPT ![p] = 0]
    /\ ino' = Collect(dir, fd', [ino EXCEPT ![fd[p]] = Overwrite(@, data)])
    /\ dir' = dir

\* open(name) for reading by p (the name exists)
OpenR(p, name) ==
    /\ fd' = [fd EXCEPT ![p] = dir[name]]
    /\ UNCHANGED <<dir, ino>>

Close(p) ==
    /\ fd' = [fd EXCEPT ![p] = 0]
    /\ ino' = Collect(dir, fd', ino)
    /\ dir' = dir

(* ------------------------------ processes ------------------------------ *)
Ended == {"done", "failed", "crashed", "killed"}

\* syslib.Task().haspid(pid): a process with that pid is running
HasPid(q) ==
    \/ q \in Procs /\ pc[q] \notin Ended \cup {"idle"}
    \/ q \in Daemons /\ daemon[q] = "running"

\* options as validated by Options._parse_args
OptionChoices == {[queue |-> "normal", ncpus |-> 1]}

DefaultOptions == [queue |-> "normal", ncpus |-> 1]

NotCalled == [exists |-> FALSE, data |-> <<>>]

NoFiles == [n \in {} |-> 0]

\* the batch file named by argument i of process p
FileName(p, i) == <<"b">> \o Str(p) \o <<"_">> \o Str(i) \o <<".", "s", "h">>

\* lines 171-175: the five lines printed to newjob.tmp
Descriptor(p, i, o) ==
    PrintLine(<<"COMMAND", "=">> \o FileName(p, i))
    \o PrintLine(<<"DIRECTORY", "=", "/", "w">>)
    \o PrintLine(<<"PATH", "=", "/", "b">>)
    \o PrintLine(<<"QUEUE", "=", o.queue>>)
    \o PrintLine(<<"NCPUS", "=">> \o Str(o.ncpus))

\* what the daemon adds to the descriptor of job id when it dispatches it: the start
\* time and the process group of the job
RunRecord(id) == PrintLine(<<"START", "=", "0">>) \o PrintLine(<<"PGID", "=">> \o Str(id))

Batches == UNION {[1..n -> BOOLEAN] : n \in 1..MaxFiles}

\* bin/myqstat.py not started
StatsIdle == [pc |-> "idle", seen |-> {}, list |-> <<>>, fd |-> 0, pid |-> 0,
              rows |-> <<>>, notice |-> FALSE]

\* no process started yet
\* the loader before Main() of bin/pyld.py is called
LoaderIdle ==
    [pc |-> "idle", argv |-> <<>>, options |-> [ok |-> FALSE], sys_argv |-> <<>>,
     sys_path |-> <<>>]

ToolsIdle ==
    /\ pc = [p \in Procs |-> "idle"]
    /\ files = [p \in Procs |-> <<>>]
    /\ idx = [p \in Procs |-> 0]
    /\ fd = [p \in Procs |-> 0]
    /\ jobid = [p \in Procs |-> 0]
    /\ pid = [p \in Procs |-> 0]
    /\ reported = [p \in Procs |-> <<>>]
    /\ lastIn = [p \in Procs |-> NotCalled]
    /\ opts = [p \in Procs |-> DefaultOptions]
    /\ notice = {}
    /\ daemon = [d \in Daemons |-> "off"]
    /\ st = StatsIdle

ProcsInit == ToolsIdle /\ ld = LoaderIdle

\* pid of an invocation that ended before the first step, killed while it held the lock
OldPid == 0

\* the store directory just created (lines 82-85), or with the lock file of a killed invocation
Init ==
    /\ ProcsInit
    /\ pgroups = {}
    /\ \/ dir = NoFiles /\ ino = <<>>
       \/ dir = Link(NoFiles, LockFile, 1) /\ ino = <<PrintLine(Str(OldPid))>>

(* --------------------------- Submit.__init__ --------------------------- *)
\* Main: Options(sys.argv) parsed and validated, the store directory exists
Start(p) ==
    /\ pc[p] = "idle"
    /\ \E b \in Batches, o \in OptionChoices :
          /\ files' = [files EXCEPT ![p] = b]
          /\ opts' = [opts EXCEPT ![p] = o]
    /\ pc' = [pc EXCEPT ![p] = "lock_isfile"]
    /\ UNCHANGED <<idx, fd, jobid, pid, dir, ino, reported, lastIn,
                 notice, daemon, pgroups, st, ld>>

(* ----------------------------- Submit._lock ---------------------------- *)
\* line 119: if os.path.isfile(lockfile)
LockIsfile(p) ==
    /\ pc[p] = "lock_isfile"
    /\ pc' = [pc EXCEPT ![p] = IF Exists(LockFile) THEN "lock_open" ELSE "lock_isfile2"]
    /\ UNCHANGED <<files, idx, fd, jobid, pid, dir, ino, reported, lastIn, opts,
                 notice, daemon, pgroups, st, ld>>

\* line 121: open(lockfile); a vanished file raises IOError -> SystemExit (line 130)
LockOpen(p) ==
    /\ pc[p] = "lock_open"
    /\ IF Exists(LockFile)
          THEN /\ OpenR(p, LockFile)
               /\ pc' = [pc EXCEPT ![p] = "lock_read"]
          ELSE /\ pc' = [pc EXCEPT ![p] = "failed"]
               /\ UNCHANGED <<fd, dir, ino>>
    /\ UNCHANGED <<files, idx, jobid, pid, reported, lastIn, opts,
                 notice, daemon, pgroups, st, ld>>

\* line 123: pid = int(ifile.readline().strip()); ValueError -> pass
LockRead(p) ==
    /\ pc[p] = "lock_read"
    /\ LET r == ReadInt(ino[fd[p]])
       IN IF r.ok
             THEN /\ pid' = [pid EXCEPT ![p] = r.val]
                  /\ pc' = [pc EXCEPT ![p] = "lock_haspid"]
                  /\ UNCHANGED <<fd, dir, ino>>
             ELSE /\ Close(p)
                  /\ pc' = [pc EXCEPT ![p] = "lock_isfile2"]
                  /\ pid' = pid
    /\ UNCHANGED <<files, idx, jobid, reported, lastIn, opts,
                 notice, daemon, pgroups, st, ld>>

\* line 127: if not syslib.Task().haspid(pid)
LockHaspid(p) ==
    /\ pc[p] = "lock_haspid"
    /\ IF HasPid(pid[p])
          THEN /\ Close(p)
               /\ pc' = [pc EXCEPT ![p] = "lock_isfile2"]
          ELSE /\ pc' = [pc EXCEPT ![p] = "lock_remove"]
               /\ UNCHANGED <<fd, dir, ino>>
    /\ UNCHANGED <<files, idx, jobid, pid, reported, lastIn, opts,
                 notice, daemon, pgroups, st, ld>>

\* line 128: os.remove(lockfile); FileNotFoundError is an IOError -> SystemExit (line 130)
LockRemove(p) ==
    /\ pc[p] = "lock_remove"
    /\ fd' = [fd EXCEPT ![p] = 0]
    /\ IF Exists(LockFile)
          THEN /\ dir' = Unlink(dir, LockFile)
               /\ pc' = [pc EXCEPT ![p] = "lock_isfile2"]
          ELSE /\ dir' = dir
               /\ pc' = [pc EXCEPT ![p] = "failed"]
    /\ ino' = Collect(dir', fd', ino)
    /\ UNCHANGED <<files, idx, jobid, pid, reported, lastIn, opts,
                 notice, daemon, pgroups, st, ld>>

\* line 132: if not os.path.isfile(lockfile); otherwise time.sleep(1) and loop again
LockIsfile2(p) ==
    /\ pc[p] = "lock_isfile2"
    /\ pc' = [pc EXCEPT ![p] = IF Exists(LockFile) THEN "lock_isfile" ELSE "lock_create"]
    /\ UNCHANGED <<files, idx, fd, jobid, pid, dir, ino, reported, lastIn, opts,
                 notice, daemon, pgroups, st, ld>>

\* line 134: open(lockfile, 'w')
LockCreate(p) ==
    /\ pc[p] = "lock_create"
    /\ OpenW(p, LockFile)
    /\ pc' = [pc EXCEPT ![p] = "lock_write"]
    /\ UNCHANGED <<files, idx, jobid, pid, reported, lastIn, opts,
                 notice, daemon, pgroups, st, ld>>

\* lines 135-139: print(os.getpid(), file=ofile); return lockfile
LockWrite(p) ==
    /\ pc[p] = "lock_write"
    /\ WriteClose(p, PrintLine(Str(p)))
    /\ idx' = [idx EXCEPT ![p] = 1]
    /\ pid' = [pid EXCEPT ![p] = 0]
    /\ pc' = [pc EXCEPT ![p] = "sub_isfile"]
    /\ UNCHANGED <<files, jobid, reported, lastIn, opts,
                 notice, daemon, pgroups, st, ld>>

(* ---------------------------- Submit._submit --------------------------- *)
\* the loop of _submit without the test of line 165
SubIsfileUnchecked(p) ==
    /\ pc[p] = "sub_isfile"
    /\ IF idx[p] <= Len(files[p])
          THEN /\ pc' = [pc EXCEPT ![p] = "last_isfile"]
               /\ UNCHANGED <<idx, jobid>>
          ELSE /\ pc' = [pc EXCEPT ![p] = "unlock"]
               /\ idx' = [idx EXCEPT ![p] = 0]
               /\ jobid' = [jobid EXCEPT ![p] = 0]
    /\ UNCHANGED <<files, fd, pid, dir, ino, reported, lastIn, opts,
                 notice, daemon, pgroups, st, ld>>

\* lines 164-167: next file of the batch; a missing file is reported and _submit returns
SubIsfile(p) ==
    /\ pc[p] = "sub_isfile"
    /\ IF idx[p] <= Len(files[p]) /\ files[p][idx[p]]
          THEN /\ pc' = [pc EXCEPT ![p] = "last_isfile"]
               /\ UNCHANGED <<idx, jobid>>
          ELSE /\ pc' = [pc EXCEPT ![p] = "unlock"]
               /\ idx' = [idx EXCEPT ![p] = 0]
               /\ jobid' = [jobid EXCEPT ![p] = 0]
    /\ UNCHANGED <<files, fd, pid, dir, ino, reported, lastIn, opts,
                 notice, daemon, pgroups, st, ld>>

(* ---------------------------- Submit._lastjob -------------------------- *)
\* line 96: if os.path.isfile(lastjob); else jobid = 1
LastIsfile(p) ==
    /\ pc[p] = "last_isfile"
    /\ IF Exists(LastJob)
          THEN /\ pc' = [pc EXCEPT ![p] = "last_open"]
               /\ lastIn' = [lastIn EXCEPT ![p] = [exists |-> TRUE, data |-> Content(LastJob)]]
               /\ jobid' = jobid
          ELSE /\ pc' = [pc EXCEPT ![p] = "last_create"]
               /\ lastIn' = [lastIn EXCEPT ![p] = [exists |-> FALSE, data |-> <<>>]]
               /\ jobid' = [jobid EXCEPT ![p] = 1]
    /\ UNCHANGED <<files, idx, fd, pid, dir, ino, reported, opts,
                 notice, daemon, pgroups, st, ld>>

\* line 98: open(lastjob); IOError -> SystemExit (line 104)
LastOpen(p) ==
    /\ pc[p] = "last_open"
    /\ IF Exists(LastJob)
          THEN /\ OpenR(p, LastJob)
               /\ pc' = [pc EXCEPT ![p] = "last_read"]
          ELSE /\ pc' = [pc EXCEPT ![p] = "failed"]
               /\ UNCHANGED <<fd, dir, ino>>
    /\ UNCHANGED <<files, idx, jobid, pid, reported, lastIn, opts,
                 notice, daemon, pgroups, st, ld>>

\* the allocator without its wrap at 32767
NextJobIdNoWrap(content) ==
    LET r == ReadInt(content)
    IN IF r.ok THEN r.val + 1 ELSE 1

\* lines 100-106: jobid = int(ifile.readline().strip()) + 1, 1 on ValueError or past 32767
NextJobId(content) ==
    LET r == ReadInt(content)
        n == IF r.ok THEN r.val + 1 ELSE 1
    IN IF n > MaxJobId THEN 1 ELSE n

LastRead(p) ==
    /\ pc[p] = "last_read"
    /\ jobid' = [jobid EXCEPT ![p] = NextJobId(ino[fd[p]])]
    /\ Close(p)
    /\ pc' = [pc EXCEPT ![p] = "last_create"]
    /\ UNCHANGED <<files, idx, pid, reported, lastIn, opts,
                 notice, daemon, pgroups, st, ld>>

\* line 110: open(lastjob, 'w')
LastCreate(p) ==
    /\ pc[p] = "last_create"
    /\ OpenW(p, LastJob)
    /\ pc' = [pc EXCEPT ![p] = "last_write"]
    /\ UNCHANGED <<files, idx, jobid, pid, reported, lastIn, opts,
                 notice, daemon, pgroups, st, ld>>

\* lines 111-114: print(jobid, file=ofile); return jobid
LastWrite(p) ==
    /\ pc[p] = "last_write"
    /\ WriteClose(p, PrintLine(Str(jobid[p])))
    /\ pc' = [pc EXCEPT ![p] = "tmp_create"]
    /\ UNCHANGED <<files, idx, jobid, pid, reported, lastIn, opts,
                 notice, daemon, pgroups, st, ld>>

(* ----------------------- Submit._submit, continued --------------------- *)
\* line 170: open(tmpfile, 'w')
TmpCreate(p) ==
    /\ pc[p] = "tmp_create"
    /\ OpenW(p, TmpFile)
    /\ lastIn' = [lastIn EXCEPT ![p] = NotCalled]
    /\ pc' = [pc EXCEPT ![p] = "tmp_write"]
    /\ UNCHANGED <<files, idx, jobid, pid, reported, opts,
                 notice, daemon, pgroups, st, ld>>

\* lines 171-175: the descriptor is written when the with-block ends
TmpWrite(p) ==
    /\ pc[p] = "tmp_write"
    /\ WriteClose(p, Descriptor(p, idx[p], opts[p]))
    /\ pc' = [pc EXCEPT ![p] = "tmp_rename"]
    /\ UNCHANGED <<files, idx, jobid, pid, reported, lastIn, opts,
                 notice, daemon, pgroups, st, ld>>

\* lines 178-179: os.rename(tmpfile, <jobid>.q) and the report of the jobid;
\* a vanished tmpfile raises FileNotFoundError, which nothing catches
TmpRename(p) ==
    /\ pc[p] = "tmp_rename"
    /\ IF Exists(TmpFile)
          THEN /\ dir' = Rename(dir, TmpFile, QFile(jobid[p]))
               /\ ino' = Collect(dir', fd, ino)
               /\ reported' = [reported EXCEPT ![p] = Append(@,
                      [id |-> jobid[p], arg |-> idx[p],
                       intact |-> ino[dir[TmpFile]] = Descriptor(p, idx[p], opts[p])])]
               /\ idx' = [idx EXCEPT ![p] = @ + 1]
               /\ pc' = [pc EXCEPT ![p] = "sub_isfile"]
          ELSE /\ pc' = [pc EXCEPT ![p] = "crashed"]
               /\ UNCHANGED <<dir, ino, reported, idx>>
    /\ UNCHANGED <<files, fd, jobid, pid, lastIn, opts,
                 notice, daemon, pgroups, st, ld>>

(* --------------------- Submit.__init__, continued ---------------------- *)
\* Submit.__init__ that goes on to _myqsd without line 91
UnlockKeep(p) ==
    /\ pc[p] = "unlock"
    /\ pc' = [pc EXCEPT ![p] = "myqsd"]
    /\ UNCHANGED <<files, idx, fd, jobid, pid, dir, ino, reported, lastIn, opts,
                 notice, daemon, pgroups, st, ld>>

\* line 91: os.remove(lockfile); FileNotFoundError is not caught
Unlock(p) ==
    /\ pc[p] = "unlock"
    /\ IF Exists(LockFile)
          THEN /\ dir' = Unlink(dir, LockFile)
               /\ ino' = Collect(dir', fd, ino)
               /\ pc' = [pc EXCEPT ![p] = "myqsd"]
          ELSE /\ pc' = [pc EXCEPT ![p] = "crashed"]
               /\ UNCHANGED <<dir, ino>>
    /\ UNCHANGED <<files, idx, fd, jobid, pid, reported, lastIn, opts,
                 notice, daemon, pgroups, st, ld>>

\* a signal the program does not handle (Main._signals sets SIGPIPE only) ends the
\* process where it is: nothing is flushed and nothing is cleaned up
Kill(p) ==
    /\ pc[p] \notin Ended \cup {"idle"}
    /\ pc' = [pc EXCEPT ![p] = "killed"]
    /\ Close(p)
    /\ idx' = [idx EXCEPT ![p] = 0]
    /\ jobid' = [jobid EXCEPT ![p] = 0]
    /\ pid' = [pid EXCEPT ![p] = 0]
    /\ lastIn' = [lastIn EXCEPT ![p] = NotCalled]
    /\ UNCHANGED <<files, reported, opts,
                 notice, daemon, pgroups, st, ld>>

Run(p) ==
    \/ LockIsfile(p) \/ LockOpen(p) \/ LockRead(p) \/ LockHaspid(p) \/ LockRemove(p)
    \/ LockIsfile2(p) \/ LockCreate(p) \/ LockWrite(p)
    \/ SubIsfile(p)
    \/ LastIsfile(p) \/ LastOpen(p) \/ LastRead(p) \/ LastCreate(p) \/ LastWrite(p)
    \/ TmpCreate(p) \/ TmpWrite(p) \/ TmpRename(p)
    \/ Unlock(p)

Step(p) == Start(p) \/ Run(p)

\* any number of submit invocations at once
Next == \E p \in Procs : Step(p) \/ Kill(p)

Spec == Init /\ [][Next]_vars

\* no invocation is killed, and every running invocation keeps taking steps
RunNext == \E p \in Procs : Step(p)

FairSpec == Init /\ [][RunNext]_vars /\ \A p \in Procs : WF_vars(Step(p))

\* the invocation is killed between open(lockfile, 'w') and the write of its pid
KillCreator(p) ==
    /\ pc[p] = "lock_write"
    /\ Kill(p)

CrashNext == \E p \in Procs : Step(p) \/ KillCreator(p)

\* every invocation that is not killed keeps taking steps
CrashSpec == Init /\ [][CrashNext]_vars /\ \A p \in Procs : WF_vars(Step(p))

(* ------------------------------ fatal errors --------------------------- *)
\* lines 134-138: open(lockfile, 'w') raises IOError -> SystemExit 'Cannot create'
LockCreateFails(p) ==
    /\ pc[p] = "lock_create"
    /\ pc' = [pc EXCEPT ![p] = "failed"]
    /\ UNCHANGED <<files, idx, fd, jobid, pid, dir, ino, reported, lastIn, opts,
                 notice, daemon, pgroups, st, ld>>

\* lines 98-104: open(lastjob) of a file that is there raises IOError -> SystemExit
\* 'Cannot read'
LastOpenFails(p) ==
    /\ pc[p] = "last_open"
    /\ Exists(LastJob)
    /\ pc' = [pc EXCEPT ![p] = "failed"]
    /\ UNCHANGED <<files, idx, fd, jobid, pid, dir, ino, reported, lastIn, opts,
                 notice, daemon, pgroups, st, ld>>

\* lines 110-113: open(lastjob, 'w') raises IOError -> SystemExit 'Cannot update'
LastCreateFails(p) ==
    /\ pc[p] = "last_create"
    /\ pc' = [pc EXCEPT ![p] = "failed"]
    /\ UNCHANGED <<files, idx, fd, jobid, pid, dir, ino, reported, lastIn, opts,
                 notice, daemon, pgroups, st, ld>>

\* lines 170-177: open(tmpfile, 'w') raises IOError -> SystemExit 'Cannot create'
TmpCreateFails(p) ==
    /\ pc[p] = "tmp_create"
    /\ pc' = [pc EXCEPT ![p] = "failed"]
    /\ UNCHANGED <<files, idx, fd, jobid, pid, dir, ino, reported, lastIn, opts,
                 notice, daemon, pgroups, st, ld>>

IOError(p) ==
    LockCreateFails(p) \/ LastOpenFails(p) \/ LastCreateFails(p) \/ TmpCreateFails(p)

(* --------------------------- scheduler daemon -------------------------- *)
JobIds == {n[1] : n \in {m \in DOMAIN dir : m[2] \in {"q", "r"}}}

\* dispatch: <id>.q becomes <id>.r by rename, with START and PGID recorded
Promote(id) ==
    /\ Exists(QFile(id))
    /\ dir' = Rename(dir, QFile(id), RFile(id))
    /\ ino' = Collect(dir', fd, [ino EXCEPT ![dir[QFile(id)]] = @ \o RunRecord(id)])
    /\ pgroups' = pgroups \cup {id}
    /\ UNCHANGED <<pc, files, idx, fd, jobid, pid, reported, lastIn, opts,
                 notice, daemon, st, ld>>

\* the last process of the job's process group exits
JobExit(id) ==
    /\ id \in pgroups
    /\ pgroups' = pgroups \ {id}
    /\ UNCHANGED <<pc, files, idx, fd, jobid, pid, dir, ino, reported, lastIn, opts,
                 notice, daemon, st, ld>>

\* the job's process group is gone: the run-file is deleted
Remove(id) ==
    /\ Exists(RFile(id))
    /\ id \notin pgroups
    /\ dir' = Unlink(dir, RFile(id))
    /\ ino' = Collect(dir', fd, ino)
    /\ UNCHANGED <<pc, files, idx, fd, jobid, pid, reported, lastIn, opts,
                 notice, daemon, pgroups, st, ld>>

\* NCPUS of a job file, as the submit tool wrote it
NcpusOf(content) ==
    LET info == ParseInfo(content)
    IN IF <<"NCPUS">> \in DOMAIN info /\ ParseInt(Strip(info[<<"NCPUS">>])).ok
          THEN ParseInt(Strip(info[<<"NCPUS">>])).val
          ELSE 0

\* the cores reserved by the jobs that have a run-file
RECURSIVE SumNcpus(_)
SumNcpus(names) ==
    IF names = {} THEN 0
    ELSE LET n == CHOOSE m \in names : TRUE
         IN NcpusOf(Content(n)) + SumNcpus(names \ {n})

Reserved == SumNcpus({n \in DOMAIN dir : n[2] = "r"})

\* dispatch without the budget
DispatchAny(d, id) ==
    /\ daemon[d] = "running"
    /\ Promote(id)

\* dispatch with a budget that is one core too wide
DispatchOneOver(d, id) ==
    /\ daemon[d] = "running"
    /\ Exists(QFile(id))
    /\ Reserved + NcpusOf(Content(QFile(id))) <= Budget + 1
    /\ Promote(id)

\* a poll of a running daemon dispatches a queued job that fits the core budget
Dispatch(d, id) ==
    /\ daemon[d] = "running"
    /\ Exists(QFile(id))
    /\ Reserved + NcpusOf(Content(QFile(id))) <= Budget
    /\ Promote(id)

\* a poll of a running daemon removes the run-file of a job whose process group is gone
Reap(d, id) ==
    /\ daemon[d] = "running"
    /\ Remove(id)

\* the daemon starts: it exits at once when myqsd.pid names a live process, and
\* otherwise takes the lock, replacing a stale file, in one step; daemons get their
\* pids in the order they start
DaemonStart(d) ==
    /\ daemon[d] = "off"
    /\ \A e \in Daemons : e < d => daemon[e] # "off"
    /\ IF /\ Exists(MyqsdFile)
          /\ ReadInt(Content(MyqsdFile)).ok
          /\ HasPid(ReadInt(Content(MyqsdFile)).val)
          THEN /\ daemon' = [daemon EXCEPT ![d] = "dead"]
               /\ UNCHANGED <<dir, ino>>
          ELSE /\ daemon' = [daemon EXCEPT ![d] = "running"]
               /\ dir' = Link(dir, MyqsdFile, FreshInode)
               /\ ino' = Collect(dir', fd,
                             [j \in DOMAIN ino \cup {FreshInode} |->
                                 IF j = FreshInode THEN PrintLine(Str(d)) ELSE ino[j]])
    /\ UNCHANGED <<pc, files, idx, fd, jobid, pid, reported, lastIn, opts,
                 notice, pgroups, st, ld>>

\* a running daemon is killed: myqsd.pid stays behind
DaemonDie(d) ==
    /\ daemon[d] = "running"
    /\ daemon' = [daemon EXCEPT ![d] = "dead"]
    /\ UNCHANGED <<pc, files, idx, fd, jobid, pid, dir, ino, reported, lastIn, opts,
                 notice, pgroups, st, ld>>

(* ----------------------------- Submit._myqsd --------------------------- *)
\* line 145: open(lockfile); IOError -> pass, and the notice of line 157 is printed
MyqsdOpen(p) ==
    /\ pc[p] = "myqsd"
    /\ IF Exists(MyqsdFile)
          THEN /\ OpenR(p, MyqsdFile)
               /\ pc' = [pc EXCEPT ![p] = "myqsd_read"]
               /\ notice' = notice
          ELSE /\ pc' = [pc EXCEPT ![p] = "done"]
               /\ notice' = notice \cup {p}
               /\ UNCHANGED <<fd, dir, ino>>
    /\ UNCHANGED <<files, idx, jobid, pid, reported, lastIn, opts, daemon, pgroups, st, ld>>

\* lines 146-149: pid = int(ifile.readline().strip()); ValueError -> pass, then line 157
MyqsdRead(p) ==
    /\ pc[p] = "myqsd_read"
    /\ LET r == ReadInt(ino[fd[p]])
       IN IF r.ok
             THEN /\ pid' = [pid EXCEPT ![p] = r.val]
                  /\ pc' = [pc EXCEPT ![p] = "myqsd_haspid"]
                  /\ UNCHANGED <<fd, dir, ino, notice>>
             ELSE /\ Close(p)
                  /\ pc' = [pc EXCEPT ![p] = "done"]
                  /\ notice' = notice \cup {p}
                  /\ pid' = pid
    /\ UNCHANGED <<files, idx, jobid, reported, lastIn, opts, daemon, pgroups, st, ld>>

\* lines 151-152: if syslib.Task().haspid(pid): return
MyqsdHaspid(p) ==
    /\ pc[p] = "myqsd_haspid"
    /\ IF HasPid(pid[p])
          THEN /\ Close(p)
               /\ pc' = [pc EXCEPT ![p] = "done"]
               /\ pid' = [pid EXCEPT ![p] = 0]
          ELSE /\ pc' = [pc EXCEPT ![p] = "myqsd_remove"]
               /\ UNCHANGED <<fd, dir, ino, pid>>
    /\ UNCHANGED <<files, idx, jobid, reported, lastIn, opts, notice, daemon, pgroups, st, ld>>

\* lines 153-157: os.remove(lockfile); FileNotFoundError is an IOError -> pass; then the
\* notice is printed
MyqsdRemove(p) ==
    /\ pc[p] = "myqsd_remove"
    /\ fd' = [fd EXCEPT ![p] = 0]
    /\ dir' = IF Exists(MyqsdFile) THEN Unlink(dir, MyqsdFile) ELSE dir
    /\ ino' = Collect(dir', fd', ino)
    /\ pid' = [pid EXCEPT ![p] = 0]
    /\ notice' = notice \cup {p}
    /\ pc' = [pc EXCEPT ![p] = "done"]
    /\ UNCHANGED <<files, idx, jobid, reported, lastIn, opts, daemon, pgroups, st, ld>>

Check(p) == MyqsdOpen(p) \/ MyqsdRead(p) \/ MyqsdHaspid(p) \/ MyqsdRemove(p)

(* --------------------------- bin/myqstat.py ---------------------------- *)
proc == <<pc, files, idx, fd, jobid, pid, reported, lastIn, opts, notice>>

\* the job files among the names of a directory
JobFiles(d) == {n \in DOMAIN d : n[2] \in {"q", "r"}}

\* line 86: sorted(jobids), one entry for every job file listed
RECURSIVE SortedIds(_)
SortedIds(names) ==
    IF names = {} THEN <<>>
    ELSE LET n == CHOOSE m \in names : \A k \in names : m[1] <= k[1]
         IN <<n[1]>> \o SortedIds(names \ {n})

\* the with-block or ifile.close() of the status tool
StatsClose == [i \in Used(dir, fd, 0) \cap DOMAIN ino |-> ino[i]]

\* Main.__init__ and Stats.__init__ lines 51-58: the header is printed
StatsStart ==
    /\ st.pc = "idle"
    /\ st' = [st EXCEPT !.pc = "glob"]
    /\ UNCHANGED <<proc, dir, ino, daemon, pgroups, ld>>

\* lines 81-85: glob.glob('*.[qr]') and the job ids of the names listed
ShowjobsGlob ==
    /\ st.pc = "glob"
    /\ st' = [st EXCEPT !.pc = IF JobFiles(dir) = {} THEN "myqsd" ELSE "open_q",
                        !.seen = JobFiles(dir),
                        !.list = SortedIds(JobFiles(dir))]
    /\ UNCHANGED <<proc, dir, ino, daemon, pgroups, ld>>

\* syslib.Task().haspgid(pgid): the process group has a live member
HasPgid(g) == g \in pgroups

\* _show_details, lines 108-138: the row printed for a job from the keys of its file;
\* a key the file lacks raises KeyError, which nothing catches
ShowDetails(info, id, kind) ==
    LET has(k) == <<k>> \in DOMAIN info
        start == ParseFloat(info[<<"START">>])
        pgid == ParseInt(Strip(info[<<"PGID">>]))
        state == IF ~has("START") THEN kind
                 ELSE IF ~start.ok THEN kind
                 ELSE IF ~has("PGID") THEN "KeyError"
                 ELSE IF ~pgid.ok THEN kind
                 ELSE IF HasPgid(pgid.val)
                         THEN IF has("DIRECTORY") /\ has("COMMAND") THEN kind ELSE "KeyError"
                 ELSE "STOP"
        etime == IF ~has("START") THEN "-"
                 ELSE IF ~start.ok \/ ~pgid.ok THEN "0"
                 ELSE "minutes"
    IN IF state = "KeyError" \/ ~has("QUEUE") \/ ~has("COMMAND")
          THEN [error |-> TRUE]
          ELSE [error |-> FALSE,
                row |-> [id |-> id, queue |-> info[<<"QUEUE">>],
                         command |-> info[<<"COMMAND">>], ncpus |-> info[<<"NCPUS">>],
                         state |-> state, etime |-> etime]]

\* lines 97-105: the opened file is read and closed, and a job with NCPUS is shown; the
\* loop goes on with the next job id
ShowjobsRead(content, kind) ==
    LET info == ParseInfo(content)
        next == IF Len(st.list) = 1 THEN "myqsd" ELSE "open_q"
        out == ShowDetails(info, Head(st.list), kind)
    IN IF <<"NCPUS">> \notin DOMAIN info
          THEN [st EXCEPT !.pc = next, !.list = Tail(st.list)]
       ELSE IF out.error
          THEN [st EXCEPT !.pc = "crashed", !.list = <<>>]
       ELSE [st EXCEPT !.pc = next, !.list = Tail(st.list), !.rows = Append(@, out.row)]

\* lines 87-89 and 95-96: open(<jobid>.q), state = 'QUEUE'
ShowjobsOpenQ ==
    /\ st.pc = "open_q"
    /\ st' = IF Exists(QFile(Head(st.list)))
                THEN ShowjobsRead(Content(QFile(Head(st.list))), "QUEUE")
                ELSE [st EXCEPT !.pc = "open_r"]
    /\ UNCHANGED <<proc, dir, ino, daemon, pgroups, ld>>

\* open(<jobid>.r) without the except of line 92
ShowjobsOpenRaises ==
    /\ st.pc = "open_r"
    /\ st' = IF Exists(RFile(Head(st.list)))
                THEN ShowjobsRead(Content(RFile(Head(st.list))), "RUN")
                ELSE [st EXCEPT !.pc = "crashed", !.list = <<>>]
    /\ UNCHANGED <<proc, dir, ino, daemon, pgroups, ld>>

\* lines 90-94: open(<jobid>.r), state = 'RUN'; OSError -> continue
ShowjobsOpenR ==
    /\ st.pc = "open_r"
    /\ st' = IF Exists(RFile(Head(st.list)))
                THEN ShowjobsRead(Content(RFile(Head(st.list))), "RUN")
                ELSE [st EXCEPT !.pc = IF Len(st.list) = 1 THEN "myqsd" ELSE "open_q",
                                !.list = Tail(st.list)]
    /\ UNCHANGED <<proc, dir, ino, daemon, pgroups, ld>>

\* Stats._myqsd line 65: open(lockfile); OSError -> pass, and the notice is printed
StatsMyqsdOpen ==
    /\ st.pc = "myqsd"
    /\ st' = IF Exists(MyqsdFile)
                THEN [st EXCEPT !.pc = "myqsd_read", !.fd = dir[MyqsdFile]]
                ELSE [st EXCEPT !.pc = "done", !.notice = TRUE]
    /\ UNCHANGED <<proc, dir, ino, daemon, pgroups, ld>>

\* lines 66-69: pid = int(ifile.readline().strip()); ValueError -> pass, then line 77
StatsMyqsdRead ==
    /\ st.pc = "myqsd_read"
    /\ LET r == ReadInt(ino[st.fd])
       IN IF r.ok
             THEN /\ st' = [st EXCEPT !.pc = "myqsd_haspid", !.pid = r.val]
                  /\ ino' = ino
             ELSE /\ st' = [st EXCEPT !.pc = "done", !.fd = 0, !.notice = TRUE]
                  /\ ino' = StatsClose
    /\ UNCHANGED <<proc, dir, daemon, pgroups, ld>>

\* the check without its call of haspid
StatsMyqsdSkipHaspid ==
    /\ st.pc = "myqsd_haspid"
    /\ st' = [st EXCEPT !.pc = "myqsd_remove"]
    /\ UNCHANGED <<proc, dir, ino, daemon, pgroups, ld>>

\* lines 71-72: if syslib.Task().haspid(pid): return
StatsMyqsdHaspid ==
    /\ st.pc = "myqsd_haspid"
    /\ IF HasPid(st.pid)
          THEN /\ st' = [st EXCEPT !.pc = "done", !.fd = 0, !.pid = 0]
               /\ ino' = StatsClose
          ELSE /\ st' = [st EXCEPT !.pc = "myqsd_remove"]
               /\ ino' = ino
    /\ UNCHANGED <<proc, dir, daemon, pgroups, ld>>

\* lines 73-77: os.remove(lockfile); FileNotFoundError is an OSError -> pass; then the
\* notice is printed
StatsMyqsdRemove ==
    /\ st.pc = "myqsd_remove"
    /\ st' = [st EXCEPT !.pc = "done", !.fd = 0, !.pid = 0, !.notice = TRUE]
    /\ dir' = IF Exists(MyqsdFile) THEN Unlink(dir, MyqsdFile) ELSE dir
    /\ ino' = [i \in Used(dir', fd, 0) \cap DOMAIN ino |-> ino[i]]
    /\ UNCHANGED <<proc, daemon, pgroups, ld>>

Stats ==
    \/ StatsStart
    \/ ShowjobsGlob \/ ShowjobsOpenQ \/ ShowjobsOpenR
    \/ StatsMyqsdOpen \/ StatsMyqsdRead \/ StatsMyqsdHaspid \/ StatsMyqsdRemove

(* ------------------- one invocation after the other -------------------- *)
\* myqs.last as earlier invocations, or the user, may have left it
LastInputs ==
    {<<>>, <<"x", "\n">>} \cup {PrintLine(Str(n)) : n \in {0, 1, MaxJobId - 1, MaxJobId}}

\* a store with a counter file, and possibly job 1 of an earlier submission still queued
\* or running while the counter has come close to its wrap
StoreInit ==
    /\ ProcsInit
    /\ pgroups = {}
    /\ \/ dir = NoFiles /\ ino = <<>>
       \/ dir = Link(NoFiles, LockFile, 1) /\ ino = <<PrintLine(Str(OldPid))>>
       \/ \E last \in LastInputs :
             dir = Link(NoFiles, LastJob, 1) /\ ino = <<last, ld>>
       \/ \E last \in LastInputs :
             /\ dir = Link(Link(NoFiles, LastJob, 1), LockFile, 2)
             /\ ino = <<last, PrintLine(Str(OldPid))>>
       \/ \E n \in {MaxJobId - 1, MaxJobId}, ext \in {"q", "r"} :
             /\ dir = Link(Link(NoFiles, LastJob, 1), <<1, ext>>, 2)
             /\ ino = <<PrintLine(Str(n)),
                        Descriptor(OldPid, 1, DefaultOptions)
                            \o (IF ext = "r" THEN RunRecord(1) ELSE <<>>)>>

\* an invocation started after the earlier ones (those of lower pid) have left
\* Submit.__init__ line 91 or have ended
SeqStart(p) ==
    /\ p <= NInvoke
    /\ \A q \in Procs : IF q < p THEN pc[q] \in Ended \cup {"myqsd"} ELSE pc[q] = "idle"
    /\ Start(p)

\* the submit tool alone
SubmitNext == \E p \in Procs : SeqStart(p) \/ Run(p) \/ Kill(p)

SubmitSpec == StoreInit /\ [][SubmitNext]_vars

\* the arguments of -n and -q on the command line
RawNcpus == {0, 1, 2}

RawQueues == {"normal", "express", "fast"}

\* options taken as they come
ArgsUnchecked(n, q) == TRUE

\* lines 64-69: SystemExit unless ncpus >= 1 and the queue is 'normal' or 'express'
ArgsValid(n, q) == ~(n < 1) /\ q \in {"normal", "express"}

\* Main.__init__ lines 193-194: Options(sys.argv) parses and checks the arguments, and
\* only then Submit(options) is constructed
ParseArgs(p) ==
    /\ pc[p] = "idle"
    /\ p <= NInvoke
    /\ \A q \in Procs : IF q < p THEN pc[q] \in Ended \cup {"myqsd"} ELSE pc[q] = "idle"
    /\ \E b \in Batches, n \in RawNcpus, q \in RawQueues :
          /\ opts' = [opts EXCEPT ![p] = [queue |-> q, ncpus |-> n]]
          /\ IF ArgsValid(n, q)
                THEN /\ files' = [files EXCEPT ![p] = b]
                     /\ pc' = [pc EXCEPT ![p] = "lock_isfile"]
                ELSE /\ files' = files
                     /\ pc' = [pc EXCEPT ![p] = "failed"]
    /\ UNCHANGED <<idx, fd, jobid, pid, dir, ino, reported, lastIn,
                 notice, daemon, pgroups, st, ld>>

\* the submit tool with any arguments
OptionNext == \E p \in Procs : ParseArgs(p) \/ Run(p)

OptionSpec == Init /\ [][OptionNext]_vars

\* the submit tool alone, on a store whose files may refuse to open
FaultNext == \E p \in Procs : SeqStart(p) \/ Run(p) \/ Kill(p) \/ IOError(p)

FaultSpec == StoreInit /\ [][FaultNext]_vars

\* the submit tool and the daemon's dispatch and clean-up
SeqNext ==
    \/ \E p \in Procs : SeqStart(p) \/ Run(p) \/ Kill(p)
    \/ \E id \in JobIds : Promote(id) \/ JobExit(id) \/ Remove(id)

SeqSpec == StoreInit /\ [][SeqNext]_vars

\* a store in which an earlier daemon may have left its lock file, or a damaged one,
\* and a killed submit invocation its own
DaemonInit ==
    /\ ProcsInit
    /\ pgroups = {}
    /\ \E held \in BOOLEAN, text \in {<<>>, <<PrintLine(Str(OldPid))>>, <<<<>>>>} :
          /\ ino = (IF held THEN <<PrintLine(Str(OldPid))>> ELSE <<>>) \o text
          /\ dir = [n \in (IF held THEN {LockFile} ELSE {})
                             \cup (IF text # <<>> THEN {MyqsdFile} ELSE {}) |->
                        IF n = LockFile THEN 1 ELSE Len(ino)]

\* the submit tool alone, from Submit.__init__ to the end of Submit._myqsd
OrderNext == \E p \in Procs : SeqStart(p) \/ Run(p) \/ Check(p) \/ Kill(p)

OrderSpec == DaemonInit /\ [][OrderNext]_vars

\* submit, status tool and daemons together, as long as no job is dispatched: every
\* job file listed is a <id>.q that stays, so line 91 of myqstat.py is not reached
DaemonNext ==
    \/ \E p \in Procs : SeqStart(p) \/ Run(p) \/ Check(p)
    \/ StatsStart \/ ShowjobsGlob \/ ShowjobsOpenQ
    \/ StatsMyqsdOpen \/ StatsMyqsdRead \/ StatsMyqsdHaspid \/ StatsMyqsdRemove
    \/ \E d \in Daemons : DaemonStart(d) \/ DaemonDie(d)

DaemonSpec == DaemonInit /\ [][DaemonNext]_vars

\* the submit tool, the daemon's dispatch and clean-up, and the status tool on a store
\* without myqsd.pid (of Stats._myqsd only line 65 is reached)
ReportNext ==
    \/ SeqNext
    \/ StatsStart \/ ShowjobsGlob \/ ShowjobsOpenQ \/ ShowjobsOpenR \/ StatsMyqsdOpen

ReportSpec == StoreInit /\ [][ReportNext]_vars

\* what the status tool may find in a job file: a descriptor as submitted or as
\* dispatched, and files that lack keys or hold values that do not parse
JobTexts(id) ==
    {Descriptor(OldPid, 1, DefaultOptions),
     Descriptor(OldPid, 1, DefaultOptions) \o RunRecord(id),
     Descriptor(OldPid, 1, DefaultOptions) \o PrintLine(<<"START", "=", "0">>),
     Descriptor(OldPid, 1, DefaultOptions)
         \o PrintLine(<<"START", "=", "0">>) \o PrintLine(<<"PGID", "=", "x">>),
     PrintLine(<<"NCPUS", "=", "1">>),
     <<>>}

\* no store directory, or a store with the files of the submit tool, one or two job
\* files and possibly the lock file of a daemon that is gone
StatsInit ==
    /\ ProcsInit
    /\ \/ dir = NoFiles /\ ino = <<>> /\ pgroups = {}
       \/ \E ext \in {"q", "r"}, text \in JobTexts(1), second \in BOOLEAN,
             lock \in {<<>>, <<PrintLine(Str(OldPid))>>, <<<<>>>>} :
             /\ pgroups \in SUBSET {1}
             /\ ino = <<PrintLine(Str(2)), PrintLine(Str(OldPid)), text>>
                         \o (IF second THEN <<Descriptor(OldPid, 2, DefaultOptions)>> ELSE <<>>)
                         \o lock
             /\ dir = [n \in {LastJob, LockFile, <<1, ext>>}
                                \cup (IF second THEN {QFile(2)} ELSE {})
                                \cup (IF lock # <<>> THEN {MyqsdFile} ELSE {}) |->
                           IF n = LastJob THEN 1
                           ELSE IF n = LockFile THEN 2
                           ELSE IF n = <<1, ext>> THEN 3
                           ELSE IF n = QFile(2) THEN 4
                           ELSE Len(ino)]

\* the status tool, alone or while daemons start and die and jobs are dispatched, exit
\* and are cleaned up
StatsNext ==
    \/ Stats
    \/ \E id \in JobIds : Promote(id) \/ JobExit(id) \/ Remove(id)
    \/ \E d \in Daemons : DaemonStart(d) \/ DaemonDie(d)

StatsSpec == StatsInit /\ [][StatsNext]_vars

\* the options that pass Options._parse_args
ValidOptions ==
    {o \in [queue : RawQueues, ncpus : RawNcpus] : ArgsValid(o.ncpus, o.queue)}

\* a store with the jobs 1..k as the submit tool queued them, each with its own options
SchedInit ==
    /\ ProcsInit
    /\ pgroups = {}
    /\ \E k \in 0..MaxFiles : \E o \in [1..k -> ValidOptions] :
          /\ dir = [n \in {QFile(i) : i \in 1..k} \cup {LastJob} |->
                        IF n = LastJob THEN k + 1 ELSE n[1]]
          /\ ino = [i \in 1..(k + 1) |->
                        IF i = k + 1 THEN PrintLine(Str(k)) ELSE Descriptor(OldPid, i, o[i])]

\* daemons start and die, dispatch within the budget and clean up after jobs that exit
SchedNext ==
    \/ \E d \in Daemons : DaemonStart(d) \/ DaemonDie(d)
    \/ \E d \in Daemons, id \in JobIds : Dispatch(d, id) \/ Reap(d, id)
    \/ \E id \in JobIds : JobExit(id)

SchedSpec == SchedInit /\ [][SchedNext]_vars

\* the status tool lists a store of queued jobs while they are dispatched, exit and are
\* cleaned up; without myqsd.pid only line 65 of Stats._myqsd is reached
ListNext ==
    \/ StatsStart \/ ShowjobsGlob \/ ShowjobsOpenQ \/ ShowjobsOpenR \/ StatsMyqsdOpen
    \/ \E id \in JobIds : Promote(id) \/ JobExit(id) \/ Remove(id)

ListSpec == SchedInit /\ [][ListNext]_vars

\* no daemon is killed; a daemon is started, and the poll loop of the running daemon
\* keeps coming back to every queued job
SchedRunNext ==
    \/ \E d \in Daemons : DaemonStart(d)
    \/ \E d \in Daemons, id \in JobIds : Dispatch(d, id) \/ Reap(d, id)
    \/ \E id \in JobIds : JobExit(id)

\* the condition under which some daemon can dispatch <id>.q
DispatchEnabled(id) ==
    /\ \E d \in Daemons : daemon[d] = "running"
    /\ Exists(QFile(id))
    /\ Reserved + NcpusOf(Content(QFile(id))) <= Budget

\* weak fairness of the start of the daemon and of the dispatch of every job; the
\* fairness of dispatch is written with its enabling condition as a state predicate
SchedFairSpec ==
    /\ SchedInit
    /\ [][SchedRunNext]_vars
    /\ WF_vars(\E d \in Daemons : DaemonStart(d))
    /\ \A id \in 1..MaxFiles :
          \/ []<>~DispatchEnabled(id)
          \/ []<><<\E d \in Daemons : Dispatch(d, id)>>_vars

(* ------------------------------ bin/pyld.py ---------------------------- *)
\* command line arguments are strings, written as sequences of characters
Pyldv == <<"-", "p", "y", "l", "d", "v">>
Pyldvv == Pyldv \o <<"v">>
Pyldvvv == Pyldvv \o <<"v">>
Pyldverbose == Pyldv \o <<"e", "r", "b", "o", "s", "e">>
Pyldpath == <<"-", "p", "y", "l", "d", "p", "a", "t", "h">>

\* str.startswith
StartsWith(s, prefix) ==
    Len(s) >= Len(prefix) /\ SubSeq(s, 1, Len(prefix)) = prefix

\* the arguments the loader is tried with: its options, '-pyldpath=l', a module name,
\* a module name with underscores, '-h', and a path list
ArgChoices ==
    {Pyldv, Pyldvv, Pyldvvv, Pyldverbose, Pyldpath, Pyldpath \o <<"=", "l">>,
     <<"m">>, <<"_", "a", "_", "b">>, <<"-", "h">>, <<"l", ":", "k">>}

\* sys.argv[0]: the loader called by name, in a directory, in the root directory
Argv0Choices == {<<"p">>, <<"b", "/", "p">>, <<"/", "p">>}

ArgLists == UNION {[1..n -> ArgChoices] : n \in 0..MaxArgs}

\* the loop that takes every argument after the module name for a module argument
RECURSIVE SplitArgsLeading(_, _, _)
SplitArgsLeading(args, py_args, mod_args) ==
    IF args = <<>> THEN [py_args |-> py_args, mod_args |-> mod_args]
    ELSE IF mod_args # <<>>
         THEN [py_args |-> py_args, mod_args |-> mod_args \o args]
    ELSE IF args[1] = Pyldpath /\ Len(args) >= 2
         THEN SplitArgsLeading(SubSeq(args, 3, Len(args)),
                               py_args \o <<args[1], args[2]>>, mod_args)
    ELSE IF args[1] \in {Pyldv, Pyldvv, Pyldvvv, Pyldverbose, Pyldpath}
            \/ StartsWith(args[1], Pyldpath \o <<"=">>)
         THEN SplitArgsLeading(Tail(args), Append(py_args, args[1]), mod_args)
    ELSE SplitArgsLeading(Tail(args), py_args, Append(mod_args, args[1]))

\* the loop of Options._parse_args: the loader's own options go to py_args, with the
\* argument after '-pyldpath', everything else goes to mod_args
RECURSIVE SplitArgs(_, _, _)
SplitArgs(args, py_args, mod_args) ==
    IF args = <<>> THEN [py_args |-> py_args, mod_args |-> mod_args]
    ELSE IF args[1] \in {Pyldv, Pyldvv, Pyldvvv, Pyldverbose, Pyldpath}
         THEN IF args[1] = Pyldpath /\ Len(args) >= 2
                 THEN SplitArgs(SubSeq(args, 3, Len(args)),
                                py_args \o <<args[1], args[2]>>, mod_args)
                 ELSE SplitArgs(Tail(args), Append(py_args, args[1]), mod_args)
    ELSE IF StartsWith(args[1], Pyldpath \o <<"=">>)
         THEN SplitArgs(Tail(args), Append(py_args, args[1]), mod_args)
    ELSE SplitArgs(Tail(args), py_args, Append(mod_args, args[1]))

\* ArgparseVerboseAction.__call__ that stores level 1 for every option
ArgparseVerboseOne(option_string) == 1

\* ArgparseVerboseAction.__call__: len(option_string[5:])
ArgparseVerboseAction(option_string) == Len(option_string) - 5

\* argparse takes an argument that starts with '-' for an option
OptionLike(a) == Len(a) >= 2 /\ a[1] = "-"

\* the namespace before parsing: verbosity 0, libpath None, no module
NoNamespace == [ok |-> TRUE, verbosity |-> 0, libpath |-> <<>>, module |-> <<>>]

\* parser.parse_args(py_args) for the parser of Options._parse_args; ok = FALSE is
\* the SystemExit of argparse (an option it does not know, '-h', '-pyldpath' without
\* a value, no module or more than the positionals it can place)
RECURSIVE ParserParseArgs(_, _)
ParserParseArgs(py_args, ns) ==
    IF py_args = <<>>
       THEN [ns EXCEPT !.ok = ns.module # <<>>]
    ELSE LET a == py_args[1]
         IN IF a \in {Pyldv, Pyldvv, Pyldvvv}
               THEN ParserParseArgs(Tail(py_args),
                                    [ns EXCEPT !.verbosity = ArgparseVerboseAction(a)])
            ELSE IF a = Pyldverbose
               THEN ParserParseArgs(Tail(py_args), [ns EXCEPT !.verbosity = 1])
            ELSE IF a = Pyldpath
               THEN IF Len(py_args) >= 2 /\ ~OptionLike(py_args[2])
                       THEN ParserParseArgs(SubSeq(py_args, 3, Len(py_args)),
                                            [ns EXCEPT !.libpath = <<py_args[2]>>])
                       ELSE [ns EXCEPT !.ok = FALSE]
            ELSE IF StartsWith(a, Pyldpath \o <<"=">>)
               THEN ParserParseArgs(Tail(py_args),
                        [ns EXCEPT !.libpath = <<SubSeq(a, Len(Pyldpath) + 2, Len(a))>>])
            ELSE IF OptionLike(a) \/ ns.module # <<>>
               THEN [ns EXCEPT !.ok = FALSE]
            ELSE ParserParseArgs(Tail(py_args), [ns EXCEPT !.module = <<a>>])

\* str.split(os.path.pathsep)
RECURSIVE SplitPath(_)
SplitPath(s) ==
    IF \E i \in 1..Len(s) : s[i] = ":"
       THEN LET i == CHOOSE k \in 1..Len(s) : s[k] = ":" /\ \A j \in 1..(k - 1) : s[j] # ":"
            IN <<SubSeq(s, 1, i - 1)>> \o SplitPath(SubSeq(s, i + 1, Len(s)))
       ELSE <<s>>

\* str.rstrip('/')
RECURSIVE RStripSlash(_)
RStripSlash(s) ==
    IF s # <<>> /\ s[Len(s)] = "/" THEN RStripSlash(SubSeq(s, 1, Len(s) - 1)) ELSE s

\* os.path.dirname
Dirname(path) ==
    LET slashes == {i \in 1..Len(path) : path[i] = "/"}
        i == IF slashes = {} THEN 0 ELSE CHOOSE k \in slashes : \A j \in slashes : j <= k
        head == SubSeq(path, 1, i)
    IN IF head # <<>> /\ \E k \in 1..Len(head) : head[k] # "/"
          THEN RStripSlash(head)
          ELSE head

\* os.path.join of two components
Join(a, b) ==
    IF StartsWith(b, <<"/">>) THEN b
    ELSE IF a = <<>> \/ a[Len(a)] = "/" THEN a \o b
    ELSE a \o <<"/">> \o b

\* list[:1]
FirstOf(list) == IF list = <<>> THEN <<>> ELSE <<list[1]>>

\* Options._parse_args with the loop given
ParseArgsWith(args, sp) ==
    LET a == ParserParseArgs(sp.py_args \o FirstOf(sp.mod_args), NoNamespace)
    IN IF ~a.ok THEN [ok |-> FALSE]
       ELSE [ok |-> TRUE,
             module |-> a.module[1],
             verbose_flag |-> a.verbosity >= 1,
             dump_flag |-> a.verbosity >= 2,
             module_args |-> SubSeq(sp.mod_args, 2, Len(sp.mod_args)),
             library_path |-> IF a.libpath # <<>>
                                 THEN SplitPath(a.libpath[1]) ELSE <<>>]

\* Options._parse_args
PyldParseArgs(args) == ParseArgsWith(args, SplitArgs(args, <<>>, <<>>))

\* Options.__init__(args): ok = FALSE is SystemExit
PyldOptions(args) ==
    LET o == PyldParseArgs(Tail(args))
    IN IF ~o.ok THEN o
       ELSE [ok |-> TRUE, module |-> o.module, verbose_flag |-> o.verbose_flag,
             dump_flag |-> o.dump_flag, module_args |-> o.module_args,
             library_path |-> o.library_path, module_dir |-> Dirname(args[1])]

\* str.replace('_', '-')
ReplaceUnderscores(s) == [i \in 1..Len(s) |-> IF s[i] = "_" THEN "-" ELSE s[i]]

\* the name with every underscore replaced, the leading one too
PythonLoaderNameKeepFirst(name) ==
    IF StartsWith(name, <<"_">>) THEN ReplaceUnderscores(name) ELSE name

\* PythonLoader.__init__: the name of the program the module is run as
PythonLoaderName(name) ==
    IF StartsWith(name, <<"_">>) THEN ReplaceUnderscores(Tail(name)) ELSE name

\* PythonLoader.__init__: self._sys_argv
PythonLoaderArgv(options) ==
    <<Join(options.module_dir, PythonLoaderName(options.module))>> \o options.module_args

\* Main.__init__ of pyld.py: options = Options(sys.argv); SystemExit ends the program
LoaderOptions ==
    /\ ld.pc = "main"
    /\ ld' = LET o == PyldOptions(ld.argv)
             IN [ld EXCEPT !.pc = IF o.ok THEN "options" ELSE "exit", !.options = o]
    /\ UNCHANGED <<proc, dir, ino, daemon, pgroups, st>>

\* Main.__init__ of pyld.py: PythonLoader(options)
LoaderInit ==
    /\ ld.pc = "options"
    /\ ld' = [ld EXCEPT !.pc = "loader", !.sys_argv = PythonLoaderArgv(ld.options)]
    /\ UNCHANGED <<proc, dir, ino, daemon, pgroups, st>>

\* PythonLoader.run: sys.argv = self._sys_argv, then the module file is loaded and its
\* Main() is called, or the file is not there (FileNotFoundError)
LoaderRun ==
    /\ ld.pc = "loader"
    /\ \E found \in BOOLEAN :
          ld' = [ld EXCEPT !.pc = IF found THEN "module" ELSE "crashed",
                           !.argv = ld.sys_argv,
                           !.sys_path = ld.options.library_path
                                        \o IF \E i \in 1..Len(ld.options.library_path) :
                                                 ld.options.library_path[i]
                                                    = ld.options.module_dir
                                              THEN <<>>
                                              ELSE <<ld.options.module_dir>>]
    /\ UNCHANGED <<proc, dir, ino, daemon, pgroups, st>>

\* the loader is called with a command line of up to MaxArgs arguments
LoaderCalled ==
    /\ ToolsIdle
    /\ pgroups = {}
    /\ dir = NoFiles /\ ino = <<>>
    /\ \E argv0 \in Argv0Choices, args \in ArgLists :
          ld = [LoaderIdle EXCEPT !.pc = "main", !.argv = <<argv0>> \o args]

LoaderNext == LoaderOptions \/ LoaderInit \/ LoaderRun

LoaderSpec == LoaderCalled /\ [][LoaderNext]_vars

(* ------------------------------- claims -------------------------------- *)
\* between the return of Submit._lock and the process's own os.remove of myqsub.pid
InCritical(p) ==
    pc[p] \in {"sub_isfile", "last_isfile", "last_open", "last_read", "last_create",
               "last_write", "tmp_create", "tmp_write", "tmp_rename", "unlock"}

InLock(p) ==
    pc[p] \in {"lock_isfile", "lock_open", "lock_read", "lock_haspid", "lock_remove",
               "lock_isfile2", "lock_create", "lock_write"}

Reports == {<<p, k>> : p \in Procs, k \in 1..MaxFiles} \cap
           UNION {{<<p, k>> : k \in DOMAIN reported[p]} : p \in Procs}

\* C1: every job id reported as submitted differs from every other reported job id, and
\* when it is reported <id>.q exists and holds the descriptor that invocation wrote
SubmitReportsUniqueAndPresent ==
    /\ \A a, b \in Reports :
          a # b => reported[a[1]][a[2]].id # reported[b[1]][b[2]].id
    /\ \A a \in Reports : reported[a[1]][a[2]].intact

\* C2: no two live submit processes are both between the return of _lock and their
\* removal of myqsub.pid
LockMutualExclusion ==
    \A p, q \in Procs : p # q => ~(InCritical(p) /\ InCritical(q))

\* C3: when an invocation has gone through its batch, the arguments it submitted are
\* exactly the existing files of the batch, wherever a missing file appears
BatchSubmitsEveryExistingFile ==
    \A p \in Procs :
        pc[p] = "myqsd" =>
            {reported[p][k].arg : k \in DOMAIN reported[p]}
                = {i \in DOMAIN files[p] : files[p][i]}

\* C4: whenever a process removes myqsub.pid, the file then holds the remover's own pid
\* or the pid of a process that is not alive
LockRemovedOnlyByOwnerOrStale ==
    [][\A p \in Procs :
          (pc[p] \in {"lock_remove", "unlock"} /\ pc'[p] # pc[p]
             /\ LockFile \in DOMAIN dir /\ LockFile \notin DOMAIN dir')
          => LET r == ReadInt(Content(LockFile))
             IN r.ok /\ (r.val = p \/ ~HasPid(r.val))]_vars

\* myqsub.pid exists and its first line is the pid of a process that is not alive
StaleLock ==
    /\ Exists(LockFile)
    /\ LET r == ReadInt(Content(LockFile)) IN r.ok /\ ~HasPid(r.val)

\* C5: a contender in _lock that meets a stale myqsub.pid eventually returns from _lock
\* with the lock
StaleLockReclaimed ==
    \A p \in Procs : (InLock(p) /\ StaleLock) ~> InCritical(p)

\* C6: submit never renames a descriptor onto <id>.q while <id>.q or <id>.r of an
\* earlier submission is present
SubmitNeverReusesPresentId ==
    [][\A p \in Procs :
          (pc[p] = "tmp_rename" /\ pc'[p] = "sub_isfile")
          => (~Exists(QFile(jobid[p])) /\ ~Exists(RFile(jobid[p])))]_vars

\* C7: for every job id at most one of <id>.q and <id>.r exists
SingleRepresentation ==
    \A id \in JobIds : ~(Exists(QFile(id)) /\ Exists(RFile(id)))

\* the counter values myqs.last can hold within the bounds
AllocValues == 0..(MaxFiles * NInvoke + 1) \cup {MaxJobId - 1, MaxJobId}

Unparsable == {<<>>, <<"x", "\n">>}

\* C8: when _lastjob has returned, the id is 1 if myqs.last was missing, unparsable or
\* held 32767, and n + 1 if it held another n; the id is in 1..32767 and myqs.last
\* holds exactly that id
LastjobResult ==
    \A p \in Procs :
        pc[p] = "tmp_create" =>
            /\ jobid[p] \in 1..MaxJobId
            /\ Exists(LastJob)
            /\ Content(LastJob) = ReadLine(Content(LastJob))
            /\ ReadInt(Content(LastJob)) = [ok |-> TRUE, val |-> jobid[p]]
            /\ \/ ~lastIn[p].exists /\ jobid[p] = 1
               \/ lastIn[p].exists /\ lastIn[p].data \in Unparsable /\ jobid[p] = 1
               \/ \E n \in AllocValues :
                     /\ lastIn[p].exists
                     /\ lastIn[p].data = PrintLine(Str(n))
                     /\ jobid[p] = IF n = MaxJobId THEN 1 ELSE n + 1

\* C8 witness: _lastjob has returned 1 for a counter file that held 32767
LastjobWrapped ==
    \E p \in Procs :
        /\ pc[p] = "tmp_create"
        /\ lastIn[p] = [exists |-> TRUE, data |-> PrintLine(Str(MaxJobId))]
        /\ jobid[p] = 1

NextId(n) == IF n = MaxJobId THEN 1 ELSE n + 1

\* C9: the ids one invocation reports are consecutive counter values, one per existing
\* file, with no id taken by another submitter in between
BatchIdsConsecutive ==
    \A p \in Procs :
        /\ \A k \in 2..Len(reported[p]) :
              reported[p][k].id = NextId(reported[p][k - 1].id)
        /\ (pc[p] = "myqsd" /\ \A i \in DOMAIN files[p] : files[p][i])
              => Len(reported[p]) = Len(files[p])

\* the descriptors submissions write
Descriptors ==
    {Descriptor(p, i, o) : p \in Procs \cup {OldPid}, i \in 1..MaxFiles, o \in OptionChoices}

\* C10: every <id>.q that exists holds the complete descriptor of one submission
QueueFilesComplete ==
    \A id \in JobIds : Exists(QFile(id)) => Content(QFile(id)) \in Descriptors
\* C11: once an invocation has aborted with a fatal error, no lock file naming it is
\* left, and myqs.last is as the aborted call of _lastjob found it
FatalErrorLeavesStore ==
    \A p \in Procs :
        pc[p] = "failed" =>
            /\ ~(Exists(LockFile) /\ ReadInt(Content(LockFile)) = [ok |-> TRUE, val |-> p])
            /\ idx[p] >= 1 =>
                  IF lastIn[p].exists
                     THEN Exists(LastJob) /\ Content(LastJob) = lastIn[p].data
                     ELSE ~Exists(LastJob)

\* C12: while a submission is in progress, myqs.last holds the id the submission
\* allocated only if the job file of that id exists
AllocationAndJobFileAtomic ==
    \A p \in Procs :
        (/\ pc[p] \in {"tmp_create", "tmp_write", "tmp_rename"}
         /\ Exists(LastJob)
         /\ ReadInt(Content(LastJob)) = [ok |-> TRUE, val |-> jobid[p]])
            => Exists(QFile(jobid[p])) \/ Exists(RFile(jobid[p]))
\* C13: at no time are two scheduler daemons running
AtMostOneDaemon == Cardinality({d \in Daemons : daemon[d] = "running"}) <= 1
InMyqsd == {"myqsd", "myqsd_read", "myqsd_haspid", "myqsd_remove"}

\* myqsd.pid names a live process
DaemonLockHeld ==
    /\ Exists(MyqsdFile)
    /\ ReadInt(Content(MyqsdFile)).ok
    /\ HasPid(ReadInt(Content(MyqsdFile)).val)

\* the file a call of _myqsd has open (h = 0: it found none) names a live process
ReadLive(h) == h # 0 /\ ReadInt(ino[h]).ok /\ HasPid(ReadInt(ino[h]).val)

\* what the step that ends a call of _myqsd must do, given whether it prints the notice
\* and the file the call has open
NoticeRule(printed, h) ==
    /\ printed <=> ~ReadLive(h)
    /\ DaemonLockHeld => dir' = dir /\ ino'[dir[MyqsdFile]] = Content(MyqsdFile)
    /\ (h # 0 /\ ReadInt(ino[h]).ok /\ ~ReadLive(h)) => MyqsdFile \notin DOMAIN dir'

\* C17: a call of _myqsd, of the submit tool or of the status tool, prints the notice
\* exactly when it found myqsd.pid absent, unparsable or naming a dead pid; it leaves a
\* file that names a live pid untouched, and a file naming a dead pid is removed when it
\* prints
DaemonNoticeMatchesLock ==
    [][/\ \A p \in Procs :
             (pc[p] \in InMyqsd /\ pc'[p] = "done") => NoticeRule(p \in notice', fd[p])
       /\ (st.pc \in InMyqsd /\ st'.pc = "done") => NoticeRule(st'.notice, st.fd)]_vars
\* the PGID recorded in <id>.r, when there is one
RunFilePgid(id) ==
    LET info == ParseInfo(Content(RFile(id)))
    IN IF <<"PGID">> \in DOMAIN info THEN ParseInt(Strip(info[<<"PGID">>]))
       ELSE [ok |-> FALSE, val |-> 0]

RunFileDead(id) == Exists(RFile(id)) /\ RunFilePgid(id).ok /\ ~HasPgid(RunFilePgid(id).val)

RunFileLive(id) == Exists(RFile(id)) /\ RunFilePgid(id).ok /\ HasPgid(RunFilePgid(id).val)

\* C14: a row the status tool prints has state STOP exactly when <id>.r exists and the
\* process group it records has no live member; a job that has only <id>.q is shown as
\* QUEUE, and one whose <id>.r records a live process group as RUN
ReportedStateMatchesStore ==
    [][Len(st'.rows) > Len(st.rows) =>
          LET row == st'.rows[Len(st'.rows)]
          IN /\ row.state = "STOP" <=> RunFileDead(row.id)
             /\ (Exists(QFile(row.id)) /\ ~Exists(RFile(row.id))) => row.state = "QUEUE"
             /\ RunFileLive(row.id) => row.state = "RUN"]_vars

\* C19: the listing the status tool takes never holds both <id>.q and <id>.r of an id
ListingNeverBoth ==
    \A n \in st.seen : ~(QFile(n[1]) \in st.seen /\ RFile(n[1]) \in st.seen)
\* C15: a step of the status tool leaves every file other than myqsd.pid in place with
\* its content, never creates or rewrites myqsd.pid, and removes it only after it read
\* from it a pid that is not alive
StatsLeavesStore ==
    [][st' # st =>
          /\ \A n \in (DOMAIN dir \cup DOMAIN dir') \ {<<0, "myqsd.pid">>} :
                /\ n \in DOMAIN dir /\ n \in DOMAIN dir'
                /\ dir'[n] = dir[n]
                /\ ino'[dir'[n]] = ino[dir[n]]
          /\ <<0, "myqsd.pid">> \in DOMAIN dir' =>
                /\ <<0, "myqsd.pid">> \in DOMAIN dir
                /\ dir'[<<0, "myqsd.pid">>] = dir[<<0, "myqsd.pid">>]
                /\ ino'[dir'[<<0, "myqsd.pid">>]] = ino[dir[<<0, "myqsd.pid">>]]
          /\ (<<0, "myqsd.pid">> \in DOMAIN dir /\ <<0, "myqsd.pid">> \notin DOMAIN dir') =>
                /\ st.fd # 0
                /\ ReadInt(ino[st.fd]).ok
                /\ ~HasPid(ReadInt(ino[st.fd]).val)]_vars

\* the status tool has listed jobs and ended after it removed the lock file of a dead
\* daemon, with the files of the submit tool and the job files in place
StatsRemovedStaleLock ==
    /\ st.pc = "done" /\ st.notice /\ st.rows # <<>>
    /\ ~Exists(MyqsdFile)
    /\ \E d \in Daemons : daemon[d] = "dead"
    /\ \A d \in Daemons : daemon[d] # "running"
    /\ Exists(LockFile) /\ Exists(LastJob) /\ JobFiles(dir) # {}

\* C16: the status tool never ends with an uncaught exception
StatsExitsZero == st.pc # "crashed"
\* every job file holds NCPUS of at least 1 and the queue normal or express
DescriptorsValid ==
    \A n \in JobFiles(dir) :
        LET info == ParseInfo(Content(n))
        IN /\ <<"NCPUS">> \in DOMAIN info
           /\ ParseInt(info[<<"NCPUS">>]).ok
           /\ ParseInt(info[<<"NCPUS">>]).val >= 1
           /\ <<"QUEUE">> \in DOMAIN info
           /\ info[<<"QUEUE">>] \in {<<"normal">>, <<"express">>}

\* C18: an invocation whose ncpus is below 1 or whose queue is neither normal nor express
\* ends without a change to the store, and every job file written holds valid options
OptionsCheckedFirst ==
    /\ []DescriptorsValid
    /\ [][\A p \in Procs :
             (pc'[p] # pc[p] /\ (opts'[p].ncpus < 1 \/ opts'[p].queue \notin {"normal", "express"}))
                => /\ pc'[p] = "failed"
                   /\ dir' = dir /\ ino' = ino /\ fd' = fd]_vars

\* an invocation given the queue 'fast' has ended and the store is still empty
OptionsRejected ==
    \E p \in Procs : pc[p] = "failed" /\ opts[p].queue = "fast" /\ dir = NoFiles
\* C20: the NCPUS of the jobs that have a run-file add up to at most the core budget
BudgetKept == Reserved <= Budget

\* the budget is used up and a queued job that does not fit is waiting
BudgetFullJobWaits ==
    /\ Reserved = Budget
    /\ \E id \in JobIds :
          Exists(QFile(id)) /\ Reserved + NcpusOf(Content(QFile(id))) > Budget
\* <id>.q is the only queued job and fits into what the run-files leave of the budget
FitsAlone(id) ==
    /\ Exists(QFile(id))
    /\ \A n \in JobFiles(dir) : n[2] = "q" => n = QFile(id)
    /\ Reserved + NcpusOf(Content(QFile(id))) <= Budget

\* C21: a queued job is not promoted in a state in which the run-files and its own
\* NCPUS exceed the budget, and a job that is alone in the queue and fits, as after the
\* removal of the run-file that held the budget, is eventually promoted
QueuedUntilBudgetFree ==
    /\ [][\A id \in 1..MaxFiles :
             (Exists(QFile(id)) /\ QFile(id) \notin DOMAIN dir')
                => Reserved + NcpusOf(Content(QFile(id))) <= Budget]_vars
    /\ \A id \in 1..MaxFiles : FitsAlone(id) ~> Exists(RFile(id))

\* the budget is in use by a job that was queued behind a job that has run and is gone
BudgetFreedJobRuns ==
    /\ Reserved = Budget
    /\ \E id \in JobIds, j \in 1..MaxFiles :
          /\ j < id
          /\ Exists(RFile(id))
          /\ ~Exists(QFile(j)) /\ ~Exists(RFile(j))
\* the loader has parsed its command line and sys.argv is still the one it was given
LoaderParsed == ld.pc \in {"options", "loader"}

VerbosityOptions == {Pyldv, Pyldvv, Pyldvvv, Pyldverbose}

\* args[i] is none of the loader's options, not of the form -pyldpath=... and not the
\* argument right after a -pyldpath
ForModule(args, i) ==
    /\ args[i] \notin VerbosityOptions \cup {Pyldpath}
    /\ ~StartsWith(args[i], Pyldpath \o <<"=">>)
    /\ ~(i > 1 /\ args[i - 1] = Pyldpath)

RECURSIVE Remaining(_, _)
Remaining(args, i) ==
    IF i > Len(args) THEN <<>>
    ELSE (IF ForModule(args, i) THEN <<args[i]>> ELSE <<>>) \o Remaining(args, i + 1)

\* C22: get_module() is the first and get_module_args() are, in their order, the other
\* arguments after argv[0] that are not a loader option, not -pyldpath=... and not the
\* value after a -pyldpath, with loader options before or after the module name
ModuleArgsAreTheRest ==
    LoaderParsed =>
        LET rest == Remaining(Tail(ld.argv), 1)
        IN /\ rest # <<>>
           /\ ld.options.module = rest[1]
           /\ ld.options.module_args = Tail(rest)

\* a command line parsed with a loader option behind the module name and its argument
OptionAfterModuleArgs ==
    /\ LoaderParsed
    /\ ld.options.module_args # <<>>
    /\ ld.argv[Len(ld.argv)] \in VerbosityOptions
    /\ ld.argv[2] \notin VerbosityOptions \cup {Pyldpath}

\* C23: with at most one verbosity option on the command line, get_verbose_flag() is
\* true iff one of -pyldv, -pyldverbose, -pyldvv, -pyldvvv is given and get_dump_flag()
\* is true iff -pyldvv or -pyldvvv is given
VerbosityFlags ==
    LET given == {i \in 2..Len(ld.argv) : ld.argv[i] \in VerbosityOptions}
    IN (LoaderParsed /\ Cardinality(given) <= 1) =>
          /\ ld.options.verbose_flag <=> given # {}
          /\ ld.options.dump_flag <=> \E i \in given : ld.argv[i] \in {Pyldvv, Pyldvvv}

\* a command line with -pyldvvv as its one verbosity option, parsed with the dump flag set
DumpFlagSet ==
    /\ LoaderParsed
    /\ ld.options.dump_flag
    /\ Cardinality({i \in 2..Len(ld.argv) : ld.argv[i] \in VerbosityOptions}) = 1
    /\ \E i \in 2..Len(ld.argv) : ld.argv[i] = Pyldvvv

\* C24: get_sys_argv() is the module arguments behind join(module_dir, name'), name'
\* being the module name, or for a name that starts with '_' the name without that
\* character and with '-' for every other '_'
SysArgvOfLoader ==
    ld.pc = "loader" =>
        LET name == ld.options.module
            renamed == IF name # <<>> /\ name[1] = "_"
                          THEN [i \in 1..(Len(name) - 1) |->
                                   IF name[i + 1] = "_" THEN "-" ELSE name[i + 1]]
                          ELSE name
        IN ld.sys_argv = <<Join(ld.options.module_dir, renamed)>> \o ld.options.module_args

\* the loader is constructed for the module '_a_b' with arguments
UnderscoreModuleLoaded ==
    /\ ld.pc = "loader"
    /\ ld.options.module = <<"_", "a", "_", "b">>
    /\ ld.options.module_args # <<>>
    /\ ld.sys_argv[1] = <<"b", "/", "a", "-", "b">>
\* myqsub.pid is there without a pid in it, and nobody is about to write one
LockOrphaned ==
    /\ Exists(LockFile)
    /\ ~ReadInt(Content(LockFile)).ok
    /\ \A q \in Procs : pc[q] # "lock_write"

HoldsLock(p) ==
    /\ Exists(LockFile)
    /\ ReadInt(Content(LockFile)) = [ok |-> TRUE, val |-> p]

\* the step has the file of that name open for p, creates it, or changes or removes it
Touches(p, name) ==
    \/ fd[p] # 0 /\ name \in DOMAIN dir /\ fd[p] = dir[name]
    \/ fd'[p] # 0 /\ name \in DOMAIN dir' /\ fd'[p] = dir'[name]
    \/ (name \in DOMAIN dir) # (name \in DOMAIN dir')
    \/ name \in DOMAIN dir /\ name \in DOMAIN dir' /\ ino'[dir'[name]] # ino[dir[name]]

\* C26: a step of an invocation that reads or writes myqs.last or creates a <id>.q is
\* taken while myqsub.pid holds its pid, before and after the step; <id>.q is created
\* when myqs.last already holds id; and a step that reads or removes myqsd.pid is
\* taken when myqsub.pid does not hold its pid any more
CriticalSectionOrder ==
    [][\A p \in Procs :
          pc'[p] # pc[p] =>
             /\ Touches(p, <<0, "myqs.last">>) => HoldsLock(p) /\ HoldsLock(p)'
             /\ Touches(p, <<jobid[p], "q">>) =>
                   /\ HoldsLock(p) /\ HoldsLock(p)'
                   /\ <<0, "myqs.last">> \in DOMAIN dir
                   /\ ReadInt(ino[dir[<<0, "myqs.last">>]]) = [ok |-> TRUE, val |-> jobid[p]]
             /\ Touches(p, <<0, "myqsd.pid">>) => ~HoldsLock(p)]_vars

\* an invocation has submitted a job, removed myqsub.pid and is reading myqsd.pid
CheckAfterUnlock ==
    \E p \in Procs :
        /\ pc[p] = "myqsd_read"
        /\ reported[p] # <<>>
        /\ ~Exists(LockFile)
        /\ Exists(LastJob)
\* C27: the status tool does not fail when a job file it has listed is gone when it
\* opens it: after open(<id>.q) has failed it prints the row of <id>.r, with RUN for a
\* live and STOP for a dead process group, when <id>.r is there, and otherwise prints
\* nothing for the job and goes on with the next one
VanishedJobSkipped ==
    /\ [](st.pc # "crashed")
    /\ [][(st.pc = "open_r" /\ st' # st) =>
             LET id == Head(st.list)
             IN /\ st'.list = Tail(st.list)
                /\ st'.pc = IF Tail(st.list) = <<>> THEN "myqsd" ELSE "open_q"
                /\ IF <<id, "r">> \in DOMAIN dir
                      THEN /\ Len(st'.rows) = Len(st.rows) + 1
                           /\ SubSeq(st'.rows, 1, Len(st.rows)) = st.rows
                           /\ st'.rows[Len(st'.rows)].id = id
                           /\ st'.rows[Len(st'.rows)].state
                                 = IF id \in pgroups THEN "RUN" ELSE "STOP"
                      ELSE st'.rows = st.rows]_vars

\* the tool has ended after a listing of two queued jobs, of which one was gone and the
\* other dispatched when it came to open them
VanishedAndPromoted ==
    /\ st.pc = "done"
    /\ \E id \in 1..MaxFiles :
          /\ <<id, "q">> \in st.seen
          /\ \A i \in 1..Len(st.rows) : st.rows[i].id # id
    /\ \E i \in 1..Len(st.rows) :
          /\ <<st.rows[i].id, "q">> \in st.seen
          /\ st.rows[i].state = "RUN"
\* C28: the rows the status tool prints are in ascending order of job id and no id is
\* printed twice, also when both <id>.q and <id>.r exist
RowsAscendingOncePerId ==
    \A i, j \in 1..Len(st.rows) : i < j => st.rows[i].id < st.rows[j].id
\* C29: the step of _submit that finds a file of the batch missing leaves myqs.last and
\* every other file of the store as they are; no job is created for a missing file, and
\* the ids of the jobs one invocation creates follow each other without a gap
MissingFileTakesNoId ==
    /\ [][\A p \in Procs :
             (/\ pc[p] = "sub_isfile" /\ pc'[p] # pc[p]
              /\ idx[p] <= Len(files[p]) /\ ~files[p][idx[p]])
                => dir' = dir /\ ino' = ino]_vars
    /\ [](\A p \in Procs : \A k \in 1..Len(reported[p]) :
             /\ files[p][reported[p][k].arg]
             /\ k > 1 =>
                   reported[p][k].id
                      = IF reported[p][k - 1].id = 32767 THEN 1
                        ELSE reported[p][k - 1].id + 1)

\* an invocation has submitted its first file, found the second one missing and left
\* the loop: myqs.last holds the id of the job it created
MissingAfterSubmitted ==
    \E p \in Procs :
        /\ pc[p] = "unlock"
        /\ files[p] = <<TRUE, FALSE>>
        /\ Len(reported[p]) = 1
        /\ Exists(LastJob)
        /\ ReadInt(Content(LastJob)) = [ok |-> TRUE, val |-> reported[p][1].id]
====
